---------------------------- MODULE Spec2Model ----------------------------
(***************************************************************************)
(* Model of the load simulator (src/simulator): the worker pool of         *)
(* LoadSimulator, the per-session loop of UserSession, the statistics      *)
(* accumulator SimulationStats, the stats reporter, run() and stop().      *)
(*                                                                         *)
(* The simulator runs on one asyncio event loop.  A task executes without  *)
(* interruption from one await to the next, so every action below is one   *)
(* such task step.  Task.cancel() marks the task; the CancelledError is    *)
(* raised inside the task at its pending await the next time it is         *)
(* stepped.  CancelledError derives from BaseException, so the             *)
(* "except Exception" of _make_request does not catch it.                  *)
(***************************************************************************)
EXTENDS Integers, FiniteSets, Sequences, TLC

\* ---------------------------------------------------------------- bounds
NumWorkers == 2
MaxRequests == 2
MaxSessions == 2
MaxSignals == 1
MaxRecorded == 3
MaxCfgItems == 1
MaxPool == 2
MaxSessionCalls == 5
MaxRamp == 2
MaxKeys == 11

Workers == 1..NumWorkers
Signals == 1..MaxSignals

\* ------------------------------------------------- configuration (inputs)
\* config['user_types']: name and requests_per_session range [min, max]
UserTypes ==
    { [name |-> "browser", min |-> 1, max |-> 1],
      [name |-> "buyer",   min |-> 1, max |-> 2] }

UserTypeNames == { ut.name : ut \in UserTypes }

UserTypeOf(n) == CHOOSE ut \in UserTypes : ut.name = n

\* config['simulation']['duration_minutes']: 0 is an unbounded run
Durations == {0, 1}

\* status codes a server answers with, and the code recorded on the
\* exception path of _make_request
ResponseStatuses == {200, 404}
SentinelStatus == 500
StatusCodes == ResponseStatuses \cup {SentinelStatus}

VARIABLES
    running,            \* LoadSimulator.running
    duration_minutes,   \* config['simulation']['duration_minutes']
    pc,                 \* where each worker task is suspended
    cancel_requested,   \* Task.cancel() was called on the worker and not yet delivered
    user_type,          \* the user type name of the worker's current session
    session_id,         \* UserSession.session_id: worker w's k-th session has the
                        \* unique id <<w, k>>; session_id[w] is k (0: none)
    requests_made,      \* UserSession.requests_made
    max_requests,       \* the value drawn by the last should_continue_session (0: none)
    issued,             \* calls of _make_request made for the current session
    dispatched,         \* number of HTTP calls sent
    stats,              \* SimulationStats
    reporterPc,         \* where the _stats_reporter task is suspended
    reporter_cancel,    \* stats_task.cancel() was called and not yet delivered
    runPc,              \* where run() is suspended
    sigPc,              \* the stop() tasks created by signal_handler
    stop_called,        \* stop() has been entered at least once
    final_stats,        \* the final snapshot taken by run() (<<>>: none yet)
    main_state,         \* main(): the configuration and how far startup has got
    selection,          \* one call of a selection function: its input and result
    outcome_log,        \* the outcomes handed to _make_request, in order
    data_gen,           \* the DataGenerators object shared by all sessions
    endpoints_hit,      \* SimulationStats.endpoints_hit
    snapshot,           \* a dictionary returned by get_stats
    request,            \* one call of _make_request: its input and what it sends
    calls               \* the calls of record_request made so far

\* the state of the running simulator
simVars == << running, duration_minutes, pc, cancel_requested, user_type,
              session_id, requests_made, max_requests, issued,
              dispatched, stats, reporterPc, reporter_cancel, runPc, sigPc,
              stop_called, final_stats >>

\* the state used only by the specifications of startup, of selection and of
\* request recording
unitVars == << data_gen, endpoints_hit, snapshot, request, calls >>

auxVars == << main_state, selection, outcome_log, unitVars >>

vars == << simVars, auxVars >>

\* ------------------------------------------------------------ helpers
RECURSIVE SumOver(_, _)
SumOver(f, S) ==
    IF S = {} THEN 0
    ELSE LET x == CHOOSE y \in S : TRUE
         IN f[x] + SumOver(f, S \ {x})

AllWorkersDone == \A w \in Workers : pc[w] = "done"

InThrottle == { w \in Workers : pc[w] = "throttle" }
InFlight == { w \in Workers : pc[w] = "http" }

\* ------------------------------------------------------ SimulationStats
SimulationStats_init ==
    [ total_requests |-> 0,
      successful_requests |-> 0,
      failed_requests |-> 0,
      status_codes |-> [c \in StatusCodes |-> 0],
      errors |-> 0 ]

\* variant of record_request that counts only status >= 500 as failed
record_request_5xx_only(s, status_code, hasError) ==
    [ total_requests |-> s.total_requests + 1,
      successful_requests |->
          IF status_code < 400 THEN s.successful_requests + 1
                               ELSE s.successful_requests,
      failed_requests |->
          IF status_code < 500 THEN s.failed_requests
                               ELSE s.failed_requests + 1,
      status_codes |->
          [s.status_codes EXCEPT ![status_code] = @ + 1],
      errors |-> IF hasError THEN s.errors + 1 ELSE s.errors ]

\* variant of record_request that adds an entry to the error list for every
\* failed outcome
record_request_error_per_failure(s, status_code, hasError) ==
    [ total_requests |-> s.total_requests + 1,
      successful_requests |->
          IF status_code < 400 THEN s.successful_requests + 1
                               ELSE s.successful_requests,
      failed_requests |->
          IF status_code < 400 THEN s.failed_requests
                               ELSE s.failed_requests + 1,
      status_codes |->
          [s.status_codes EXCEPT ![status_code] = @ + 1],
      errors |-> IF hasError \/ status_code >= 400 THEN s.errors + 1
                                                   ELSE s.errors ]

\* SimulationStats.record_request: hasError is "error is a non-empty text"
record_request(s, status_code, hasError) ==
    [ total_requests |-> s.total_requests + 1,
      successful_requests |->
          IF status_code < 400 THEN s.successful_requests + 1
                               ELSE s.successful_requests,
      failed_requests |->
          IF status_code < 400 THEN s.failed_requests
                               ELSE s.failed_requests + 1,
      status_codes |->
          [s.status_codes EXCEPT ![status_code] = @ + 1],
      errors |-> IF hasError THEN s.errors + 1 ELSE s.errors ]

\* SimulationStats.get_stats: the counters of the snapshot
get_stats(s) ==
    [ total_requests |-> s.total_requests,
      successful_requests |-> s.successful_requests,
      failed_requests |-> s.failed_requests,
      status_codes |-> s.status_codes,
      error_count |-> s.errors ]

\* ---------------------------------------------------------- UserSession
\* UserSession.should_continue_session with the value m drawn by
\* random.randint(*requests_per_session)
should_continue_session(made, m) == made < m

\* UserSession.update_state: the counter part
update_state(made) == made + 1


\* ------------------------------------------------------- LoadSimulator
\* the call outcomes _make_request can see: a response with a status code and
\* a body that parses as JSON or not, or an exception raised by the client
\* (timeout, connection error) whose str() is empty or not
Outcomes ==
    [ kind : {"response"}, status : ResponseStatuses, json_ok : BOOLEAN, text : {"err"} ]
    \cup [ kind : {"exception"}, status : {SentinelStatus}, json_ok : {FALSE}, text : {"", "err"} ]

\* does the try block of _make_request reach update_state and the first
\* record_request?  response.json() is evaluated only for status < 400 and
\* raises on a body that is not JSON
ResponsePath(o) ==
    /\ o.kind = "response"
    /\ (o.status < 400 => o.json_ok)

\* _user_session_worker returns: the task is done and its session, a local
\* of the coroutine, is gone
WorkerEnd(w) ==
    /\ pc' = [pc EXCEPT ![w] = "done"]
    /\ user_type' = [user_type EXCEPT ![w] = "none"]
    /\ session_id' = [session_id EXCEPT ![w] = 0]
    /\ requests_made' = [requests_made EXCEPT ![w] = 0]
    /\ max_requests' = [max_requests EXCEPT ![w] = 0]
    /\ issued' = [issued EXCEPT ![w] = 0]

\* the inner "while self.running and session.should_continue_session()" of
\* _user_session_worker, evaluated by worker w for a session with the given
\* fields; a session that continues enters _make_request and waits for the
\* throttler
SessionLoop(w, sid, ut, made, iss) ==
    /\ session_id' = [session_id EXCEPT ![w] = sid]
    /\ user_type' = [user_type EXCEPT ![w] = ut]
    /\ requests_made' = [requests_made EXCEPT ![w] = made]
    /\ IF ~running
       THEN /\ pc' = [pc EXCEPT ![w] = "gap"]
            /\ issued' = [issued EXCEPT ![w] = iss]
            /\ max_requests' = max_requests
       ELSE \E m \in UserTypeOf(ut).min .. UserTypeOf(ut).max :
              /\ max_requests' = [max_requests EXCEPT ![w] = m]
              /\ IF should_continue_session(made, m)
                 THEN /\ dispatched + Cardinality(InThrottle) < MaxRequests
                      /\ pc' = [pc EXCEPT ![w] = "throttle"]
                      /\ issued' = [issued EXCEPT ![w] = iss + 1]
                 ELSE /\ pc' = [pc EXCEPT ![w] = "gap"]
                      /\ issued' = [issued EXCEPT ![w] = iss]

\* variant of OuterLoop in which a worker runs one session and returns
OuterLoop_single_session(w) ==
    IF running /\ session_id[w] = 0
    THEN /\ session_id[w] < MaxSessions
         /\ \E ut \in UserTypeNames :
                SessionLoop(w, session_id[w] + 1, ut, 0, 0)
    ELSE WorkerEnd(w)

\* the outer "while self.running" of _user_session_worker: a new session
\* (user type drawn by _select_user_type, a fresh session id) or the end of
\* the worker
OuterLoop(w) ==
    IF running
    THEN /\ session_id[w] < MaxSessions
         /\ \E ut \in UserTypeNames :
                SessionLoop(w, session_id[w] + 1, ut, 0, 0)
    ELSE WorkerEnd(w)

\* variant of WorkerStart in which a worker task that has ended is created
\* and run again while the simulation is running
WorkerStart_respawn(w) ==
    /\ runPc # "init"
    /\ \/ pc[w] = "notstarted"
       \/ pc[w] = "done" /\ running
    /\ ~cancel_requested[w]
    /\ OuterLoop(w)
    /\ UNCHANGED << running, duration_minutes, cancel_requested, dispatched,
                    stats, reporterPc, reporter_cancel, runPc, sigPc,
                    stop_called, final_stats >>
    /\ UNCHANGED auxVars

\* the worker task runs for the first time
WorkerStart(w) ==
    /\ runPc # "init"
    /\ pc[w] = "notstarted"
    /\ ~cancel_requested[w]
    /\ OuterLoop(w)
    /\ UNCHANGED << running, duration_minutes, cancel_requested, dispatched,
                    stats, reporterPc, reporter_cancel, runPc, sigPc,
                    stop_called, final_stats >>
    /\ UNCHANGED auxVars

\* variant of ThrottleAdmit in which one admission is followed by two HTTP
\* calls
ThrottleAdmit_two_calls(w) ==
    /\ pc[w] = "throttle"
    /\ ~cancel_requested[w]
    /\ pc' = [pc EXCEPT ![w] = "http"]
    /\ dispatched' = dispatched + 2
    /\ UNCHANGED << running, duration_minutes, cancel_requested, user_type,
                    session_id, requests_made, max_requests, issued, stats, reporterPc, reporter_cancel,
                    runPc, sigPc, stop_called, final_stats >>
    /\ UNCHANGED auxVars

\* "async with self.throttler" admits the worker, which builds the request
\* and sends it
ThrottleAdmit(w) ==
    /\ pc[w] = "throttle"
    /\ ~cancel_requested[w]
    /\ pc' = [pc EXCEPT ![w] = "http"]
    /\ dispatched' = dispatched + 1
    /\ UNCHANGED << running, duration_minutes, cancel_requested, user_type,
                    session_id, requests_made, max_requests, issued, stats, reporterPc, reporter_cancel,
                    runPc, sigPc, stop_called, final_stats >>
    /\ UNCHANGED auxVars

\* the rest of _make_request once the HTTP call has ended with outcome o:
\* the new requests_made and stats
make_request_made(made, o) ==
    IF ResponsePath(o) THEN update_state(made) ELSE made

\* variant of make_request_stats in which a failure after the response was
\* received is recorded in the try block and again in the handler
make_request_stats_twice(s, o) ==
    IF o.kind = "response"
    THEN IF ResponsePath(o)
         THEN record_request(s, o.status, FALSE)
         ELSE record_request(record_request(s, o.status, FALSE),
                             SentinelStatus, o.text # "")
    ELSE record_request(s, SentinelStatus, o.text # "")

make_request_stats(s, o) ==
    IF ResponsePath(o)
    THEN record_request(s, o.status, FALSE)
    ELSE record_request(s, SentinelStatus, o.text # "")

\* the HTTP call of worker w ends; _make_request returns and the worker
\* starts its think-time sleep
HttpComplete(w) ==
    /\ pc[w] = "http"
    /\ ~cancel_requested[w]
    /\ \E o \in Outcomes :
          /\ requests_made' = [requests_made EXCEPT ![w] = make_request_made(@, o)]
          /\ stats' = make_request_stats(stats, o)
    /\ pc' = [pc EXCEPT ![w] = "think"]
    /\ UNCHANGED << running, duration_minutes, cancel_requested, user_type,
                    session_id, max_requests, issued,
                    dispatched, reporterPc, reporter_cancel, runPc, sigPc,
                    stop_called, final_stats >>
    /\ UNCHANGED auxVars

\* the think-time sleep ends: next evaluation of the inner loop condition
ThinkElapsed(w) ==
    /\ pc[w] = "think"
    /\ ~cancel_requested[w]
    /\ SessionLoop(w, session_id[w], user_type[w], requests_made[w], issued[w])
    /\ UNCHANGED << running, duration_minutes, cancel_requested, dispatched, stats, reporterPc,
                    reporter_cancel, runPc, sigPc, stop_called, final_stats >>
    /\ UNCHANGED auxVars

\* the pause between two sessions ends: next evaluation of the outer loop
GapElapsed(w) ==
    /\ pc[w] = "gap"
    /\ ~cancel_requested[w]
    /\ OuterLoop(w)
    /\ UNCHANGED << running, duration_minutes, cancel_requested, dispatched,
                    stats, reporterPc, reporter_cancel, runPc, sigPc,
                    stop_called, final_stats >>
    /\ UNCHANGED auxVars

\* variant of WorkerCancelled in which the handler of _make_request also
\* catches the CancelledError of a call in flight and records it as a failure
WorkerCancelled_recorded(w) ==
    /\ cancel_requested[w]
    /\ pc[w] # "done"
    /\ WorkerEnd(w)
    /\ cancel_requested' = [cancel_requested EXCEPT ![w] = FALSE]
    /\ stats' = IF pc[w] = "http"
                THEN record_request(stats, SentinelStatus, FALSE)
                ELSE stats
    /\ UNCHANGED << running, duration_minutes,
                    dispatched, reporterPc, reporter_cancel, runPc,
                    sigPc, stop_called, final_stats >>
    /\ UNCHANGED auxVars

\* the CancelledError of a cancelled worker is raised at its pending await
\* (or the task is dropped before its first step) and the worker ends in
\* "except asyncio.CancelledError"
WorkerCancelled(w) ==
    /\ cancel_requested[w]
    /\ pc[w] # "done"
    /\ WorkerEnd(w)
    /\ cancel_requested' = [cancel_requested EXCEPT ![w] = FALSE]
    /\ UNCHANGED << running, duration_minutes,
                    dispatched, stats, reporterPc, reporter_cancel, runPc,
                    sigPc, stop_called, final_stats >>
    /\ UNCHANGED auxVars

\* ---------------------------------------------------------------- stop()
\* the part of stop() before its await: clear the flag and cancel every
\* worker task (cancel() of a finished task does nothing)
\* variants of stop() used to test the shutdown properties: one that clears
\* the flag but cancels no worker, one that returns before doing either
stop_begin_flag_only ==
    /\ running' = FALSE
    /\ cancel_requested' = cancel_requested
    /\ stop_called' = TRUE

stop_begin_skipped ==
    /\ running' = running
    /\ cancel_requested' = cancel_requested
    /\ stop_called' = TRUE

\* variant of stop() in which a call made after an earlier call sets the
\* running flag again
stop_begin_toggle ==
    /\ running' = stop_called
    /\ cancel_requested' = [w \in Workers |-> pc[w] # "done"]
    /\ stop_called' = TRUE

stop_begin ==
    /\ running' = FALSE
    /\ cancel_requested' = [w \in Workers |-> pc[w] # "done"]
    /\ stop_called' = TRUE

\* "await asyncio.gather(*self.workers, return_exceptions=True)" of stop()
\* can return
\* variant: stop() does not wait for the workers
WorkersGathered_not_awaited == TRUE

WorkersGathered == AllWorkersDone

\* signal_handler: asyncio.create_task(simulator.stop()); no signal reaches
\* the handler once main() has left run()
Signal(i) ==
    /\ sigPc[i] = "idle"
    /\ runPc # "returned"
    /\ sigPc' = [sigPc EXCEPT ![i] = "scheduled"]
    /\ UNCHANGED << running, duration_minutes, pc, cancel_requested,
                    user_type, session_id, requests_made, max_requests,
                    issued, dispatched, stats, reporterPc,
                    reporter_cancel, runPc, stop_called, final_stats >>
    /\ UNCHANGED auxVars

\* the stop() task of a signal runs up to its gather
SigStopBegin(i) ==
    /\ sigPc[i] = "scheduled"
    /\ runPc # "init"
    /\ stop_begin
    /\ sigPc' = [sigPc EXCEPT ![i] = "gather"]
    /\ UNCHANGED << duration_minutes, pc, user_type, session_id,
                    requests_made, max_requests, issued,
                    dispatched, stats, reporterPc, reporter_cancel, runPc,
                    final_stats >>
    /\ UNCHANGED auxVars

\* the stop() task of a signal returns
SigStopReturn(i) ==
    /\ sigPc[i] = "gather"
    /\ WorkersGathered
    /\ sigPc' = [sigPc EXCEPT ![i] = "returned"]
    /\ UNCHANGED << running, duration_minutes, pc, cancel_requested,
                    user_type, session_id, requests_made, max_requests,
                    issued, dispatched, stats, reporterPc,
                    reporter_cancel, runPc, stop_called, final_stats >>
    /\ UNCHANGED auxVars

\* ------------------------------------------------------- _stats_reporter
\* the reporter task runs for the first time: "while self.running"
ReporterStart ==
    /\ runPc # "init"
    /\ reporterPc = "notstarted"
    /\ ~reporter_cancel
    /\ reporterPc' = IF running THEN "sleep" ELSE "done"
    /\ UNCHANGED << running, duration_minutes, pc, cancel_requested,
                    user_type, session_id, requests_made, max_requests,
                    issued, dispatched, stats,
                    reporter_cancel, runPc, sigPc, stop_called, final_stats >>
    /\ UNCHANGED auxVars

\* the interval sleep ends: one periodic report, then "while self.running"
ReporterWake ==
    /\ reporterPc = "sleep"
    /\ ~reporter_cancel
    /\ reporterPc' = IF running THEN "sleep" ELSE "done"
    /\ UNCHANGED << running, duration_minutes, pc, cancel_requested,
                    user_type, session_id, requests_made, max_requests,
                    issued, dispatched, stats,
                    reporter_cancel, runPc, sigPc, stop_called, final_stats >>
    /\ UNCHANGED auxVars

\* the CancelledError of stats_task.cancel() ends the reporter
ReporterCancelled ==
    /\ reporter_cancel
    /\ reporterPc # "done"
    /\ reporterPc' = "done"
    /\ reporter_cancel' = FALSE
    /\ UNCHANGED << running, duration_minutes, pc, cancel_requested,
                    user_type, session_id, requests_made, max_requests,
                    issued, dispatched, stats, runPc,
                    sigPc, stop_called, final_stats >>
    /\ UNCHANGED auxVars

\* ----------------------------------------------------------------- run()
\* run() up to its first await: the flag is set, the worker tasks and the
\* reporter task are created, then run() sleeps for the duration or waits
\* on a future nobody completes
RunStart ==
    /\ runPc = "init"
    /\ running' = TRUE
    /\ runPc' = IF duration_minutes > 0 THEN "duration" ELSE "forever"
    /\ UNCHANGED << duration_minutes, pc, cancel_requested, user_type,
                    session_id, requests_made, max_requests, issued, dispatched, stats, reporterPc,
                    reporter_cancel, sigPc, stop_called, final_stats >>
    /\ UNCHANGED auxVars

\* the duration sleep ends: run() calls stop()
RunDurationElapsed ==
    /\ runPc = "duration"
    /\ stop_begin
    /\ runPc' = "stop_gather"
    /\ UNCHANGED << duration_minutes, pc, user_type, session_id,
                    requests_made, max_requests, issued,
                    dispatched, stats, reporterPc, reporter_cancel, sigPc,
                    final_stats >>
    /\ UNCHANGED auxVars

\* stop() returns to run(), which cancels the reporter and awaits it
RunStopReturn ==
    /\ runPc = "stop_gather"
    /\ WorkersGathered
    /\ reporter_cancel' = (reporterPc # "done")
    /\ runPc' = "stats_gather"
    /\ UNCHANGED << running, duration_minutes, pc, cancel_requested,
                    user_type, session_id, requests_made, max_requests,
                    issued, dispatched, stats, reporterPc,
                    sigPc, stop_called, final_stats >>
    /\ UNCHANGED auxVars

\* "await asyncio.gather(*[stats_task], return_exceptions=True)" of run()
\* can return
ReporterGathered == reporterPc = "done"

\* the reporter has ended: run() takes the final snapshot and returns
RunFinal ==
    /\ runPc = "stats_gather"
    /\ ReporterGathered
    /\ final_stats' = << get_stats(stats) >>
    /\ runPc' = "returned"
    /\ UNCHANGED << running, duration_minutes, pc, cancel_requested,
                    user_type, session_id, requests_made, max_requests,
                    issued, dispatched, stats, reporterPc,
                    reporter_cancel, sigPc, stop_called >>
    /\ UNCHANGED auxVars

\* --------------------------------------------------------- specification
\* the state after LoadSimulator.__init__, before run()
SimInit ==
    /\ running = FALSE
    /\ duration_minutes \in Durations
    /\ pc = [w \in Workers |-> "notstarted"]
    /\ cancel_requested = [w \in Workers |-> FALSE]
    /\ user_type = [w \in Workers |-> "none"]
    /\ session_id = [w \in Workers |-> 0]
    /\ requests_made = [w \in Workers |-> 0]
    /\ max_requests = [w \in Workers |-> 0]
    /\ issued = [w \in Workers |-> 0]
    /\ dispatched = 0
    /\ stats = SimulationStats_init
    /\ reporterPc = "notstarted"
    /\ reporter_cancel = FALSE
    /\ runPc = "init"
    /\ sigPc = [i \in Signals |-> "idle"]
    /\ stop_called = FALSE
    /\ final_stats = << >>

\* the variables a specification does not use keep these values
MainIdle == [ pc |-> "idle" ]
SelectionIdle == [ pc |-> "idle" ]
OutcomeLogIdle == << >>

UnitIdle ==
    /\ data_gen = [ pc |-> "idle" ]
    /\ endpoints_hit = << >>
    /\ snapshot = [ pc |-> "idle" ]
    /\ request = [ pc |-> "idle" ]
    /\ calls = << >>

Init ==
    /\ SimInit
    /\ main_state = MainIdle
    /\ selection = SelectionIdle
    /\ outcome_log = OutcomeLogIdle
    /\ UnitIdle

Next ==
    \/ RunStart
    \/ RunDurationElapsed
    \/ RunStopReturn
    \/ RunFinal
    \/ ReporterStart
    \/ ReporterWake
    \/ ReporterCancelled
    \/ \E i \in Signals : Signal(i)
    \/ \E i \in Signals : SigStopBegin(i)
    \/ \E i \in Signals : SigStopReturn(i)
    \/ \E w \in Workers : WorkerStart(w)
    \/ \E w \in Workers : ThrottleAdmit(w)
    \/ \E w \in Workers : HttpComplete(w)
    \/ \E w \in Workers : ThinkElapsed(w)
    \/ \E w \in Workers : GapElapsed(w)
    \/ \E w \in Workers : WorkerCancelled(w)

Spec == Init /\ [][Next]_vars

\* the steps of one task
WorkerStep(w) ==
    \/ WorkerStart(w)
    \/ ThrottleAdmit(w)
    \/ HttpComplete(w)
    \/ ThinkElapsed(w)
    \/ GapElapsed(w)
    \/ WorkerCancelled(w)

ReporterStep == ReporterStart \/ ReporterWake \/ ReporterCancelled

RunStep == RunStart \/ RunDurationElapsed \/ RunStopReturn \/ RunFinal

SigStopStep(i) == SigStopBegin(i) \/ SigStopReturn(i)

\* The event loop runs every task that is ready, every sleep ends and every
\* HTTP call ends (with a response, an error or its 30 s timeout): each task
\* is weakly fair.  A signal is an input of the environment: no fairness.
FairSpec ==
    /\ Spec
    /\ \A w \in Workers : WF_vars(WorkerStep(w))
    /\ WF_vars(ReporterStep)
    /\ WF_vars(RunStep)
    /\ \A i \in Signals : WF_vars(SigStopStep(i))

\* ------------------------------------------------------------ properties
UserTypeRange(w) == UserTypeOf(user_type[w])

NoStopPending ==
    /\ runPc # "stop_gather"
    /\ \A i \in Signals : sigPc[i] # "gather"

\* C1: a session that ended without being interrupted by shutdown (its worker
\* is in the pause between sessions) issued between a and b requests, where
\* [a, b] is the requests_per_session range of its user type
C1_SessionIssuesWithinRange ==
    \A w \in Workers :
        pc[w] = "gap" =>
            /\ UserTypeRange(w).min <= issued[w]
            /\ issued[w] <= UserTypeRange(w).max

\* C2: every request a session executed, whatever its outcome, raised
\* requests_made by one: when a worker is in its think time, requests_made
\* equals the number of _make_request calls of the session
C2_EveryRequestCounts ==
    \A w \in Workers :
        pc[w] = "think" => requests_made[w] = issued[w]

\* C3: two continuation checks of one session compare requests_made against
\* the same budget
C3_BudgetFixed ==
    [][ \A w \in Workers :
          ( /\ session_id'[w] = session_id[w]
            /\ max_requests[w] # 0
            /\ max_requests'[w] # 0 )
          => max_requests'[w] = max_requests[w] ]_vars

\* C4: in every state get_stats can observe, and in the final snapshot it
\* returned, successful + failed = total and the status-code histogram sums
\* to total
C4_StatsConsistent ==
    /\ stats.successful_requests + stats.failed_requests = stats.total_requests
    /\ SumOver(stats.status_codes, StatusCodes) = stats.total_requests
    /\ final_stats # << >> =>
          /\ final_stats[1].successful_requests + final_stats[1].failed_requests
                = final_stats[1].total_requests
          /\ SumOver(final_stats[1].status_codes, StatusCodes)
                = final_stats[1].total_requests

C4_Witness ==
    /\ stats.total_requests = 2
    /\ stats.successful_requests = 1
    /\ stats.status_codes[404] = 1

\* C6: after stop() is called every worker task ends and every stop() that
\* was waiting for the workers has returned
C6_StopEndsWorkers ==
    stop_called ~> (AllWorkersDone /\ NoStopPending)

C6_Witness ==
    /\ stop_called
    /\ AllWorkersDone
    /\ runPc = "stats_gather"
    /\ dispatched > stats.total_requests

\* C7: a request that was sent is either still in flight or has a recorded
\* outcome
C7_NoRequestAbandoned ==
    dispatched = stats.total_requests + Cardinality(InFlight)

\* C8: once stop() has been called, no step of a worker enters _make_request,
\* sends an HTTP call or creates a session
C8_NoNewWorkAfterStop ==
    [][ stop_called =>
          \A w \in Workers :
              /\ (pc'[w] \in {"throttle", "http"} => pc'[w] = pc[w])
              /\ session_id'[w] \in {session_id[w], 0} ]_vars

C8_Witness ==
    /\ stop_called
    /\ \E w \in Workers : pc[w] = "throttle" /\ cancel_requested[w]
    /\ \E w \in Workers : pc[w] = "done" /\ dispatched > 0

\* C9: when stop() has been called and nothing can run any more, run() has
\* emitted the final snapshot and returned
C9_FinalReportAtShutdown ==
    (stop_called /\ ~ENABLED Next) =>
        (final_stats # << >> /\ runPc = "returned")

\* C10: when the final snapshot is taken every worker task and the reporter
\* task have ended, and the statistics never differ from it afterwards
C10_FinalAfterAllTasks ==
    final_stats # << >> =>
        /\ AllWorkersDone
        /\ reporterPc = "done"
        /\ final_stats[1] = get_stats(stats)

C10_Witness ==
    /\ final_stats # << >>
    /\ final_stats[1].total_requests > 0
    /\ runPc = "returned"


\* ------------------------------------------- errors raised in the worker
\* config['geographic_distribution']: UserSession.__init__ calls
\* get_ip_address, which raises ValueError for an ip range that is malformed
\* or holds fewer than three addresses (randint over an empty range).  Spec
\* runs with usable ranges only; ErrSpec adds the regions below.
Regions ==
    { [region |-> "us", ip_range_usable |-> TRUE],
      [region |-> "eu", ip_range_usable |-> FALSE] }

\* a worker that creates a session draws a region whose range is not usable:
\* the exception leaves both loops and ends the worker in "except Exception"
SessionCreateError(w) ==
    /\ runPc # "init"
    /\ pc[w] \in {"notstarted", "gap"}
    /\ ~cancel_requested[w]
    /\ running
    /\ \E r \in Regions : ~r.ip_range_usable
    /\ WorkerEnd(w)
    /\ UNCHANGED << running, duration_minutes, cancel_requested, dispatched,
                    stats, reporterPc, reporter_cancel, runPc, sigPc,
                    stop_called, final_stats >>
    /\ UNCHANGED auxVars

ErrNext ==
    \/ Next
    \/ \E w \in Workers : SessionCreateError(w)

ErrSpec == Init /\ [][ErrNext]_vars

\* C11: an error raised in a worker outside _make_request does not end the
\* worker: while the running flag is set no worker task has ended
C11_WorkerSurvivesError ==
    running => \A w \in Workers : pc[w] # "done"

\* ------------------------------------------ recording of request outcomes
\* _make_request recording the outcome of one more call: the steps of one
\* worker seen from the statistics, with the outcomes kept in outcome_log
RecordOutcome ==
    /\ Len(outcome_log) < MaxRecorded
    /\ \E o \in Outcomes :
          /\ stats' = make_request_stats(stats, o)
          /\ outcome_log' = Append(outcome_log, o)
    /\ UNCHANGED << running, duration_minutes, pc, cancel_requested,
                    user_type, session_id, requests_made, max_requests,
                    issued, dispatched, reporterPc, reporter_cancel, runPc,
                    sigPc, stop_called, final_stats, main_state, selection,
                    unitVars >>

RecordSpec == Init /\ [][RecordOutcome]_vars

\* the outcomes of the log that ended in the exception handler of
\* _make_request, and the responses received with a status below 400
LoggedExceptions ==
    { i \in 1..Len(outcome_log) : ~ResponsePath(outcome_log[i]) }

LoggedSuccessResponses ==
    { i \in 1..Len(outcome_log) :
        outcome_log[i].kind = "response" /\ outcome_log[i].status < 400 }

\* C12: every call that raised inside _make_request is recorded as one failed
\* outcome with status 500 and one entry of the error list
C12_ExceptionRecordedWithText ==
    /\ stats.status_codes[SentinelStatus] = Cardinality(LoggedExceptions)
    /\ stats.failed_requests >= Cardinality(LoggedExceptions)
    /\ stats.errors = Cardinality(LoggedExceptions)

\* C13: successful_requests counts exactly the responses received with a
\* status code below 400
C13_SuccessIffStatusBelow400 ==
    stats.successful_requests = Cardinality(LoggedSuccessResponses)

\* C14: the step that delivers a cancellation to a worker, at whatever
\* suspension point, leaves the statistics unchanged
C14_CancellationNotRecorded ==
    [][ (\E w \in Workers : cancel_requested[w] /\ ~cancel_requested'[w])
          => stats' = stats ]_vars

C14_Witness ==
    /\ stop_called
    /\ \E w \in Workers : pc[w] = "done" /\ ~cancel_requested[w]
    /\ dispatched > stats.total_requests + Cardinality(InFlight)

\* ----------------------------------------------------------------- main()
\* The configuration file as validate_config sees it: which sections exist,
\* which fields of the simulation section exist and whether their values are
\* positive (1) or not (0), the user types with or without a weight, the
\* services with or without base_url and endpoints (the weight of a service's
\* endpoint), and the weight of the regions.
Sections == {"simulation", "user_types", "endpoints", "geographic_distribution"}
SimFields == {"workers", "requests_per_second"}
CfgNumbers == {0, 1}

RECURSIVE SeqsUpTo(_, _)
SeqsUpTo(S, n) ==
    IF n = 0 THEN { << >> }
    ELSE LET shorter == SeqsUpTo(S, n - 1)
         IN shorter \cup { Append(q, x) : q \in shorter, x \in S }

UserTypeCfgs == [ has_weight : BOOLEAN, weight : CfgNumbers ]
ServiceCfgs == [ has_base_url : BOOLEAN, has_endpoints : BOOLEAN,
                 endpoint_weight : CfgNumbers ]

Configs ==
    [ sections : SUBSET Sections,
      sim_fields : SUBSET SimFields,
      workers : CfgNumbers,
      requests_per_second : CfgNumbers,
      user_types : SeqsUpTo(UserTypeCfgs, MaxCfgItems),
      services : SeqsUpTo(ServiceCfgs, MaxCfgItems),
      region_weight : CfgNumbers ]

\* variant of validate_config that does not look at requests_per_second
validate_config_workers_only(c) ==
    /\ \A s \in Sections : s \in c.sections
    /\ "workers" \in c.sim_fields
    /\ c.workers > 0
    /\ \A i \in 1..Len(c.user_types) :
          c.user_types[i].has_weight /\ c.user_types[i].weight > 0
    /\ \A i \in 1..Len(c.services) :
          c.services[i].has_base_url /\ c.services[i].has_endpoints

\* validate_config: every check whose failure returns False
validate_config(c) ==
    /\ \A s \in Sections : s \in c.sections
    /\ \A f \in SimFields : f \in c.sim_fields
    /\ ~(c.workers <= 0)
    /\ ~(c.requests_per_second <= 0)
    /\ \A i \in 1..Len(c.user_types) :
          ~(~c.user_types[i].has_weight \/ c.user_types[i].weight <= 0)
    /\ \A i \in 1..Len(c.services) :
          /\ c.services[i].has_base_url
          /\ c.services[i].has_endpoints

\* max_retries of wait_for_services
max_retries == 30

\* what one health poll can end in
PollOutcomes == {"status_200", "other_status", "exception"}

\* main() before validate_config, with any configuration
MainInit ==
    \E c \in Configs :
        main_state = [ pc |-> "validate", config |-> c, validated |-> "pending",
                       service |-> 0, attempt |-> 0, answered_200 |-> {},
                       polled |-> FALSE, ready |-> "pending",
                       exit_code |-> 0, workers_started |-> FALSE ]

\* "if not validate_config(config): sys.exit(1)"; otherwise main goes on to
\* wait_for_services, which starts with the first service
MainValidate ==
    /\ main_state.pc = "validate"
    /\ main_state' =
         IF validate_config(main_state.config)
         THEN [main_state EXCEPT !.pc = "wait", !.validated = "accepted",
                                 !.service = 1, !.attempt = 0]
         ELSE [main_state EXCEPT !.pc = "exited", !.validated = "rejected",
                                 !.exit_code = 1]
    /\ UNCHANGED << simVars, selection, outcome_log, unitVars >>

\* wait_for_services after the attempt of the current service ended with
\* outcome o: break on status 200; on another status the loop goes to the
\* next attempt and, after the last, to the next service; on an exception
\* it sleeps and retries, or returns False at the last attempt
wait_for_services_step(m, o) ==
    LET polled == [m EXCEPT !.polled = TRUE]
        next_service == [polled EXCEPT !.service = @ + 1, !.attempt = 0]
    IN  IF o = "status_200"
        THEN [next_service EXCEPT !.answered_200 = @ \cup {m.service}]
        ELSE IF o = "other_status"
        THEN IF m.attempt + 1 < max_retries
             THEN [polled EXCEPT !.attempt = @ + 1]
             ELSE next_service
        ELSE IF m.attempt = max_retries - 1
             THEN [polled EXCEPT !.pc = "exited", !.ready = "failed",
                                 !.exit_code = 1]
             ELSE [polled EXCEPT !.attempt = @ + 1]

\* one health poll of the current service
MainPoll ==
    /\ main_state.pc = "wait"
    /\ main_state.service <= Len(main_state.config.services)
    /\ \E o \in PollOutcomes :
          main_state' = wait_for_services_step(main_state, o)
    /\ UNCHANGED << simVars, selection, outcome_log, unitVars >>

\* every service has been left by break or by the end of its attempts:
\* wait_for_services returns True and main creates the simulator and runs
\* it, which starts the workers
MainRun ==
    /\ main_state.pc = "wait"
    /\ main_state.service > Len(main_state.config.services)
    /\ main_state' = [main_state EXCEPT !.pc = "running", !.ready = "ready",
                                        !.workers_started = TRUE]
    /\ UNCHANGED << simVars, selection, outcome_log, unitVars >>

StartupInit ==
    /\ SimInit
    /\ MainInit
    /\ selection = SelectionIdle
    /\ outcome_log = OutcomeLogIdle
    /\ UnitIdle

StartupNext == MainValidate \/ MainPoll \/ MainRun

StartupSpec == StartupInit /\ [][StartupNext]_vars

\* C15: workers are started only if every configured service answered its
\* health poll with status 200 at some attempt of its retry budget; a service
\* that never did makes wait_for_services return False and main exit non-zero.
C15_ReadinessGate ==
    /\ main_state.pc \in {"wait", "running"} =>
          \A s \in 1..(main_state.service - 1) : s \in main_state.answered_200
    /\ (main_state.pc # "idle" /\ main_state.workers_started) =>
          main_state.answered_200 = 1..Len(main_state.config.services)

\* the rejections C16 lists
C16_Rejected(c) ==
    \/ \E s \in Sections : s \notin c.sections
    \/ "workers" \notin c.sim_fields
    \/ "requests_per_second" \notin c.sim_fields
    \/ c.workers <= 0
    \/ c.requests_per_second <= 0
    \/ \E i \in 1..Len(c.services) :
          ~c.services[i].has_base_url \/ ~c.services[i].has_endpoints

C17_AcceptedWeightsPositive ==
    (main_state.pc # "idle" /\ main_state.validated = "accepted") =>
        /\ \A i \in 1..Len(main_state.config.user_types) :
              main_state.config.user_types[i].weight > 0
        /\ \A i \in 1..Len(main_state.config.services) :
              main_state.config.services[i].endpoint_weight > 0
        /\ main_state.config.region_weight > 0

\* -------------------------------------------------------------- selection
\* weights a configuration can give (nothing keeps them positive for
\* endpoints and regions)
Weights == {-1, 0, 1, 2}

\* what _build_endpoints keeps of an endpoint for selection
EndpointCfgs == [ weight : Weights, user_types : SUBSET UserTypeNames ]

\* itertools.accumulate(weights)
RECURSIVE accumulate(_)
accumulate(w) ==
    IF Len(w) = 0 THEN << >>
    ELSE LET front == accumulate(SubSeq(w, 1, Len(w) - 1))
         IN Append(front, (IF Len(front) = 0 THEN 0 ELSE front[Len(front)])
                          + w[Len(w)])

\* bisect.bisect(a, x, lo, hi) on the 0-based positions of a
RECURSIVE bisect(_, _, _, _)
bisect(a, x, lo, hi) ==
    IF lo < hi
    THEN LET mid == (lo + hi) \div 2
         IN IF x < a[mid + 1] THEN bisect(a, x, lo, mid)
                              ELSE bisect(a, x, mid + 1, hi)
    ELSE lo

Raised(err) == [ error |-> err, index |-> 0 ]
Returned(i) == [ error |-> "none", index |-> i ]

\* random.choices(population, weights)[0] over the positions 1..Len(weights):
\* IndexError on an empty population, ValueError when the total weight is not
\* positive, otherwise the position bisect finds for a draw below the total
random_choices(weights) ==
    IF Len(weights) = 0 THEN { Raised("IndexError") }
    ELSE LET cum_weights == accumulate(weights)
             total == cum_weights[Len(weights)]
         IN IF total <= 0 THEN { Raised("ValueError") }
            ELSE { Returned(bisect(cum_weights, x, 0, Len(weights) - 1) + 1) :
                     x \in 0..(total - 1) }

\* random.choice(seq) over the positions 1..n
random_choice(n) ==
    IF n = 0 THEN { Raised("IndexError") } ELSE { Returned(i) : i \in 1..n }

\* positions of the endpoints whose user_types contains user_type, in order
RECURSIVE available_endpoints(_, _)
available_endpoints(endpoints, ut) ==
    IF Len(endpoints) = 0 THEN << >>
    ELSE LET front == available_endpoints(SubSeq(endpoints, 1, Len(endpoints) - 1), ut)
         IN IF ut \in endpoints[Len(endpoints)].user_types
            THEN Append(front, Len(endpoints)) ELSE front

\* variant of _select_endpoint without the "if not available_endpoints" branch
select_endpoint_no_fallback(endpoints, ut) ==
    LET available == available_endpoints(endpoints, ut)
        weights == [ i \in 1..Len(available) |-> endpoints[available[i]].weight ]
    IN { [ error |-> o.error, via |-> "weights",
           index |-> IF o.error = "none" THEN available[o.index] ELSE 0 ] :
           o \in random_choices(weights) }

\* _select_endpoint: the outcomes it can have, as positions in self.endpoints
select_endpoint(endpoints, ut) ==
    LET available == available_endpoints(endpoints, ut)
        weights == [ i \in 1..Len(available) |-> endpoints[available[i]].weight ]
    IN IF Len(available) = 0
       THEN { [ error |-> o.error, via |-> "fallback", index |-> o.index ] :
                o \in random_choice(Len(endpoints)) }
       ELSE { [ error |-> o.error, via |-> "weights",
                index |-> IF o.error = "none" THEN available[o.index] ELSE 0 ] :
                o \in random_choices(weights) }

\* _select_user_type and _select_region: random.choices over the configured
\* list with the list's weights
select_weighted(weights) ==
    { [ error |-> o.error, via |-> "weights", index |-> o.index ] :
        o \in random_choices(weights) }

\* the calls: _select_endpoint on a list of endpoints for a user type name,
\* _select_user_type and _select_region on a list of weighted entries
SelectionCalls ==
    { [ fn |-> "_select_endpoint", endpoints |-> eps, user_type |-> ut,
        weights |-> << >> ] :
        eps \in SeqsUpTo(EndpointCfgs, MaxPool), ut \in UserTypeNames }
    \cup
    { [ fn |-> f, endpoints |-> << >>, user_type |-> "none", weights |-> w ] :
        f \in {"_select_user_type", "_select_region"},
        w \in SeqsUpTo(Weights, MaxPool) }

SelectInit ==
    \E call \in SelectionCalls :
        selection = [ pc |-> "call", fn |-> call.fn, endpoints |-> call.endpoints,
                      user_type |-> call.user_type, weights |-> call.weights,
                      error |-> "none", via |-> "none", index |-> 0 ]

SelectReturn(o) ==
    selection' = [selection EXCEPT !.pc = "returned", !.error = o.error,
                                   !.via = o.via, !.index = o.index]

SelectEndpoint ==
    /\ selection.pc = "call"
    /\ selection.fn = "_select_endpoint"
    /\ \E o \in select_endpoint(selection.endpoints, selection.user_type) :
          SelectReturn(o)
    /\ UNCHANGED << simVars, main_state, outcome_log, unitVars >>

SelectUserType ==
    /\ selection.pc = "call"
    /\ selection.fn = "_select_user_type"
    /\ \E o \in select_weighted(selection.weights) : SelectReturn(o)
    /\ UNCHANGED << simVars, main_state, outcome_log, unitVars >>

SelectRegion ==
    /\ selection.pc = "call"
    /\ selection.fn = "_select_region"
    /\ \E o \in select_weighted(selection.weights) : SelectReturn(o)
    /\ UNCHANGED << simVars, main_state, outcome_log, unitVars >>

SelectSpecInit ==
    /\ SimInit
    /\ main_state = MainIdle
    /\ SelectInit
    /\ outcome_log = OutcomeLogIdle
    /\ UnitIdle

SelectNext == SelectEndpoint \/ SelectUserType \/ SelectRegion

SelectSpec == SelectSpecInit /\ [][SelectNext]_vars

\* the eligibility C18 states: the list contains the user type or is empty
Eligible(ep, ut) == ep.user_types = {} \/ ut \in ep.user_types

EligiblePositions(endpoints, ut) ==
    { i \in 1..Len(endpoints) : Eligible(endpoints[i], ut) }

EndpointReturned ==
    /\ selection.pc = "returned"
    /\ selection.fn = "_select_endpoint"
    /\ selection.error = "none"

\* C18: for user type T, _select_endpoint never returns an endpoint whose
\* non-empty user_types list lacks T while some endpoint is eligible, and
\* every eligible endpoint of positive weight, one with an empty list
\* included, is among the endpoints a call can return.
C18_SelectsAmongEligible ==
    /\ (EndpointReturned
          /\ EligiblePositions(selection.endpoints, selection.user_type) # {}) =>
          selection.index \in
              EligiblePositions(selection.endpoints, selection.user_type)
    /\ (EndpointReturned
          /\ \A i \in 1..Len(selection.endpoints) :
                selection.endpoints[i].weight > 0) =>
          \A i \in EligiblePositions(selection.endpoints, selection.user_type) :
              \E o \in select_endpoint(selection.endpoints, selection.user_type) :
                  o.error = "none" /\ o.index = i

\* no endpoint lists the user type: the filter of _select_endpoint is empty
\* (this is the case, in particular, whenever no endpoint is eligible)
NoneAvailable(endpoints, ut) ==
    \A i \in 1..Len(endpoints) : ut \notin endpoints[i].user_types

\* C19 as stated: whenever no endpoint is available for the user type,
\* _select_endpoint returns an endpoint of the whole set and raises no error.
C19_FallbackAlwaysReturns ==
    (selection.pc = "returned" /\ selection.fn = "_select_endpoint"
       /\ NoneAvailable(selection.endpoints, selection.user_type)) =>
        /\ selection.error = "none"
        /\ selection.index \in 1..Len(selection.endpoints)

\* C19 amended: when no endpoint is available for the user type and the
\* endpoint set is not empty, _select_endpoint raises no error and returns an
\* endpoint of the whole set, any of them whatever its weight.
C19_FallbackReturnsWhenNonEmpty ==
    /\ (selection.pc = "returned" /\ selection.fn = "_select_endpoint"
          /\ NoneAvailable(selection.endpoints, selection.user_type)
          /\ Len(selection.endpoints) > 0) =>
          /\ selection.error = "none"
          /\ selection.index \in 1..Len(selection.endpoints)
    /\ (EndpointReturned
          /\ NoneAvailable(selection.endpoints, selection.user_type)
          /\ Len(selection.endpoints) > 0) =>
          { o.index : o \in select_endpoint(selection.endpoints,
                                            selection.user_type) }
              = 1..Len(selection.endpoints)

C19_Witness ==
    /\ EndpointReturned
    /\ selection.via = "fallback"
    /\ Len(selection.endpoints) = 2
    /\ NoneAvailable(selection.endpoints, selection.user_type)
    /\ selection.index = 2
    /\ selection.endpoints[2].weight <= 0

\* the weights a returned call selected by: those of the configured list, or
\* those of the available endpoints
CandidateWeights ==
    IF selection.fn = "_select_endpoint"
    THEN { selection.endpoints[i].weight :
             i \in { j \in 1..Len(selection.endpoints) :
                       selection.user_type \in selection.endpoints[j].user_types } }
    ELSE { selection.weights[i] : i \in 1..Len(selection.weights) }

\* C20: a weighted selection whose candidate list is empty or holds a weight
\* <= 0 ends in an error and returns no item.
C20_BadPoolRaises ==
    (selection.pc = "returned" /\ selection.via = "weights"
       /\ (CandidateWeights = {} \/ \E w \in CandidateWeights : w <= 0)) =>
        selection.error # "none"

\* ------------------------------------------------- objects and writers
\* The objects a worker writes while it creates and runs a session, and the
\* workers that have written each of them.  LoadSimulator.__init__ creates
\* one Throttler, one SimulationStats and one DataGenerators; every
\* UserSession is a local of the worker that created it and is given the one
\* DataGenerators.
SharedObjects == {"throttler", "stats", "data_gen._session_data"}

\* DataGenerators.generate_user_id: the keys of _session_data after a call for
\* session id sid
generate_user_id_keys(keys, sid) ==
    IF sid \notin keys THEN keys \cup {sid} ELSE keys

\* does generate_user_id write _session_data for session id sid?
generate_user_id_writes(keys, sid) == sid \notin keys

OwnersInit ==
    data_gen = [ pc |-> [w \in Workers |-> "between"],
                 session |-> [w \in Workers |-> 0],
                 made |-> [w \in Workers |-> 0],
                 session_data_keys |-> {},
                 writers |-> [o \in SharedObjects |-> {}],
                 session_writers |-> [w \in Workers |-> {}] ]

\* UserSession.__init__ run by worker w for its next session: the new
\* object's fields are written by w, and generate_user_id stores the
\* session's entry in the _session_data of the shared DataGenerators
OwnerCreatesSession(w) ==
    /\ data_gen.pc[w] = "between"
    /\ data_gen.session[w] < MaxSessions
    /\ LET sid == << w, data_gen.session[w] + 1 >>
       IN data_gen' =
            [data_gen EXCEPT
               !.pc[w] = "session",
               !.session[w] = @ + 1,
               !.made[w] = 0,
               !.session_data_keys = generate_user_id_keys(@, sid),
               !.writers["data_gen._session_data"] =
                   IF generate_user_id_writes(data_gen.session_data_keys, sid)
                   THEN @ \cup {w} ELSE @,
               !.session_writers[w] = @ \cup {w}]
    /\ UNCHANGED << simVars, main_state, selection, outcome_log,
                    endpoints_hit, snapshot, request, calls >>

\* "async with self.throttler" entered by worker w for a request of its
\* session
OwnerAcquires(w) ==
    /\ data_gen.pc[w] = "session"
    /\ data_gen.made[w] < MaxRequests
    /\ data_gen' = [data_gen EXCEPT !.pc[w] = "admitted",
                                    !.writers["throttler"] = @ \cup {w}]
    /\ UNCHANGED << simVars, main_state, selection, outcome_log,
                    endpoints_hit, snapshot, request, calls >>

\* the request of worker w ends: update_state writes the worker's session
\* and record_request writes the stats
OwnerRecords(w) ==
    /\ data_gen.pc[w] = "admitted"
    /\ data_gen' = [data_gen EXCEPT !.pc[w] = "session",
                                    !.made[w] = @ + 1,
                                    !.session_writers[w] = @ \cup {w},
                                    !.writers["stats"] = @ \cup {w}]
    /\ UNCHANGED << simVars, main_state, selection, outcome_log,
                    endpoints_hit, snapshot, request, calls >>

\* the session of worker w ends
OwnerEndsSession(w) ==
    /\ data_gen.pc[w] = "session"
    /\ data_gen' = [data_gen EXCEPT !.pc[w] = "between"]
    /\ UNCHANGED << simVars, main_state, selection, outcome_log,
                    endpoints_hit, snapshot, request, calls >>

OwnersSpecInit ==
    /\ SimInit
    /\ main_state = MainIdle
    /\ selection = SelectionIdle
    /\ outcome_log = OutcomeLogIdle
    /\ OwnersInit
    /\ endpoints_hit = << >>
    /\ snapshot = [ pc |-> "idle" ]
    /\ request = [ pc |-> "idle" ]
    /\ calls = << >>

OwnersNext ==
    \/ \E w \in Workers : OwnerCreatesSession(w)
    \/ \E w \in Workers : OwnerAcquires(w)
    \/ \E w \in Workers : OwnerRecords(w)
    \/ \E w \in Workers : OwnerEndsSession(w)

OwnersSpec == OwnersSpecInit /\ [][OwnersNext]_vars

\* C21: the throttler and the stats are the only objects written by more
\* than one worker; a session is written by its own worker only.
C21_OnlyLimiterAndStatsShared ==
    /\ \A o \in SharedObjects :
          Cardinality(data_gen.writers[o]) > 1 => o \in {"throttler", "stats"}
    /\ \A w \in Workers : data_gen.session_writers[w] \subseteq {w}

\* ------------------------------------------- concurrent record_request
\* the keys f"{method} {endpoint}" the workers record under
EndpointKeys == {"GET /products", "POST /cart"}

\* variant of the endpoint histogram update that stores 1 on every call
record_endpoints_hit_overwrite(hits, endpoint_key) ==
    IF endpoint_key \notin DOMAIN hits
    THEN hits @@ (endpoint_key :> 1)
    ELSE [hits EXCEPT ![endpoint_key] = 1]

\* SimulationStats.record_request: the endpoints_hit part
record_endpoints_hit(hits, endpoint_key) ==
    IF endpoint_key \notin DOMAIN hits
    THEN hits @@ (endpoint_key :> 1)
    ELSE [hits EXCEPT ![endpoint_key] = @ + 1]

\* the count stored under a key (0: the key is not in the dictionary)
HitCount(hits, endpoint_key) ==
    IF endpoint_key \in DOMAIN hits THEN hits[endpoint_key] ELSE 0

CallKinds == Workers \X EndpointKeys \X StatusCodes

CallsMade == SumOver(calls, CallKinds)

\* record_request has no await: on the one event loop a call made by a
\* worker runs from its first line to its last before any other task runs
WorkerRecords(w) ==
    /\ CallsMade < MaxRecorded
    /\ \E endpoint_key \in EndpointKeys, status_code \in StatusCodes,
          hasError \in BOOLEAN :
          /\ stats' = record_request(stats, status_code, hasError)
          /\ endpoints_hit' = record_endpoints_hit(endpoints_hit, endpoint_key)
          /\ calls' = [calls EXCEPT ![<< w, endpoint_key, status_code >>] = @ + 1]
    /\ UNCHANGED << running, duration_minutes, pc, cancel_requested,
                    user_type, session_id, requests_made, max_requests,
                    issued, dispatched, reporterPc, reporter_cancel, runPc,
                    sigPc, stop_called, final_stats, main_state, selection,
                    outcome_log, data_gen, snapshot, request >>

RecordersInit ==
    /\ SimInit
    /\ main_state = MainIdle
    /\ selection = SelectionIdle
    /\ outcome_log = OutcomeLogIdle
    /\ data_gen = [ pc |-> "idle" ]
    /\ endpoints_hit = << >>
    /\ snapshot = [ pc |-> "idle" ]
    /\ request = [ pc |-> "idle" ]
    /\ calls = [ c \in CallKinds |-> 0 ]

RecordersNext == \E w \in Workers : WorkerRecords(w)

RecordersSpec == RecordersInit /\ [][RecordersNext]_vars

\* C22: whatever the interleaving of the workers' calls, total_requests is
\* the number of record_request calls made, and the count of each status
\* code and of each endpoint key is the number of calls made with it.
C22_NoLostIncrement ==
    /\ stats.total_requests = CallsMade
    /\ \A c \in StatusCodes :
          stats.status_codes[c] =
              SumOver(calls, { k \in CallKinds : k[3] = c })
    /\ \A e \in EndpointKeys :
          HitCount(endpoints_hit, e) =
              SumOver(calls, { k \in CallKinds : k[2] = e })

C22_Witness ==
    /\ CallsMade = MaxRecorded
    /\ \E e \in EndpointKeys, c \in StatusCodes :
          \A w \in Workers : calls[<< w, e, c >>] > 0

\* C24: an HTTP call is sent only by a worker that was waiting for the
\* throttler and is admitted in that step, one call per admission; a worker
\* leaves the wait only by being admitted or by being cancelled.
C24_DispatchOnlyAfterAdmission ==
    [][ /\ \A w \in Workers :
              (pc'[w] = "http" /\ pc[w] # "http") => pc[w] = "throttle"
        /\ dispatched' # dispatched =>
              /\ dispatched' = dispatched + 1
              /\ \E w \in Workers : pc[w] = "throttle" /\ pc'[w] = "http"
        /\ \A w \in Workers :
              (pc[w] = "throttle" /\ pc'[w] # "throttle") =>
                  pc'[w] \in {"http", "done"} ]_vars

C24_Witness ==
    /\ dispatched = MaxRequests
    /\ \A w \in Workers : pc[w] = "http"

\* ------------------------------------------------------------ snapshots
\* the number of keys get_stats keeps in top_endpoints
TopEndpointsLimit == 10

\* insertion of item x into a sequence sorted by descending count, after
\* the items whose count is not smaller: sorted(..., reverse=True) is stable
RECURSIVE InsertByCount(_, _)
InsertByCount(s, x) ==
    IF Len(s) = 0 THEN << x >>
    ELSE IF Head(s).count >= x.count
         THEN << Head(s) >> \o InsertByCount(Tail(s), x)
         ELSE << x >> \o s

\* sorted(items, key=lambda x: x[1], reverse=True)
RECURSIVE SortedByCount(_)
SortedByCount(items) ==
    IF Len(items) = 0 THEN << >>
    ELSE InsertByCount(SortedByCount(SubSeq(items, 1, Len(items) - 1)),
                       items[Len(items)])

\* variant of top_endpoints_ordered that keeps the end of the sorted list
top_endpoints_ordered_tail(hits, order) ==
    LET items == [ i \in 1..Len(order) |->
                     [ key |-> order[i], count |-> hits[order[i]] ] ]
        sorted == SortedByCount(items)
        first == IF Len(sorted) > TopEndpointsLimit
                 THEN Len(sorted) - TopEndpointsLimit + 1 ELSE 1
    IN [ k \in { sorted[i].key : i \in first..Len(sorted) } |->
           sorted[CHOOSE i \in first..Len(sorted) : sorted[i].key = k].count ]

\* top_endpoints of get_stats for the dictionary hits whose keys were
\* inserted in the given order: dict(sorted(items, ...)[:10])
top_endpoints_ordered(hits, order) ==
    LET items == [ i \in 1..Len(order) |->
                     [ key |-> order[i], count |-> hits[order[i]] ] ]
        sorted == SortedByCount(items)
        kept == SubSeq(sorted, 1, IF Len(sorted) < TopEndpointsLimit
                                  THEN Len(sorted) ELSE TopEndpointsLimit)
    IN [ k \in { kept[i].key : i \in 1..Len(kept) } |->
           kept[CHOOSE i \in 1..Len(kept) : kept[i].key = k].count ]

\* an order of the keys of a dictionary modelled without its insertion order
KeyOrder(hits) ==
    CHOOSE order \in [ 1..Cardinality(DOMAIN hits) -> DOMAIN hits ] :
        \A i, j \in DOMAIN order : i # j => order[i] # order[j]

\* top_endpoints of get_stats
top_endpoints(hits) == top_endpoints_ordered(hits, KeyOrder(hits))

\* the dictionary get_stats returns: the value each entry has at the call
get_stats_dict(s, hits) ==
    get_stats(s) @@ [ top_endpoints |-> top_endpoints(hits) ]

SnapshotFields ==
    {"total_requests", "successful_requests", "failed_requests",
     "status_codes", "error_count", "top_endpoints"}

\* the entries of the returned dictionary that are the very object held by
\* SimulationStats: 'status_codes': self.status_codes.  The numbers are
\* immutable and top_endpoints is built by dict(...).
SnapshotSharedFields == {"status_codes"}

\* what the holder of the snapshot reads from it now
snapshot_read(snap, s) ==
    [ f \in SnapshotFields |->
        IF f \in SnapshotSharedFields THEN s[f] ELSE snap.taken[f] ]

\* a call of get_stats: it assigns nothing in SimulationStats
TakeSnapshot ==
    /\ snapshot' = [ pc |-> "taken",
                     taken |-> get_stats_dict(stats, endpoints_hit) ]
    /\ UNCHANGED << simVars, main_state, selection, outcome_log, data_gen,
                    endpoints_hit, request, calls >>

\* a call of record_request
SnapshotRecord ==
    /\ stats.total_requests < MaxRecorded
    /\ \E endpoint_key \in EndpointKeys, status_code \in StatusCodes,
          hasError \in BOOLEAN :
          /\ stats' = record_request(stats, status_code, hasError)
          /\ endpoints_hit' = record_endpoints_hit(endpoints_hit, endpoint_key)
    /\ UNCHANGED << running, duration_minutes, pc, cancel_requested,
                    user_type, session_id, requests_made, max_requests,
                    issued, dispatched, reporterPc, reporter_cancel, runPc,
                    sigPc, stop_called, final_stats, main_state, selection,
                    outcome_log, data_gen, snapshot, request, calls >>

SnapshotInit ==
    /\ SimInit
    /\ main_state = MainIdle
    /\ selection = SelectionIdle
    /\ outcome_log = OutcomeLogIdle
    /\ UnitIdle

SnapshotNext == TakeSnapshot \/ SnapshotRecord

SnapshotSpec == SnapshotInit /\ [][SnapshotNext]_vars

\* C25: each field of a snapshot that get_stats has returned shows, for as
\* long as the snapshot is held and whatever is recorded afterwards, the
\* value it had when the snapshot was taken.
C25_SnapshotIsPointInTime ==
    snapshot.pc = "taken" =>
        \A f \in SnapshotFields :
            snapshot_read(snapshot, stats)[f] = snapshot.taken[f]

\* ------------------------------------------------- one session, end to end
\* the configuration of the scenario: one user type with
\* requests_per_session [3, 3] and one endpoint, of weight 1, for it
ScenarioUserType == [ name |-> "browser", min |-> 3, max |-> 3 ]
ScenarioEndpoints == << [ weight |-> 1, user_types |-> {"browser"} ] >>
ScenarioEndpointKey == "GET /products"
ScenarioWorker == 1

\* the worker creates its session
ScenarioSessionStart ==
    /\ runPc # "init"
    /\ running
    /\ pc[ScenarioWorker] = "notstarted"
    /\ pc' = [pc EXCEPT ![ScenarioWorker] = "loop"]
    /\ session_id' = [session_id EXCEPT ![ScenarioWorker] = 1]
    /\ user_type' = [user_type EXCEPT ![ScenarioWorker] = ScenarioUserType.name]
    /\ requests_made' = [requests_made EXCEPT ![ScenarioWorker] = 0]
    /\ UNCHANGED << running, duration_minutes, cancel_requested,
                    max_requests, issued, dispatched, stats, reporterPc,
                    reporter_cancel, runPc, sigPc, stop_called, final_stats >>
    /\ UNCHANGED auxVars

\* one turn of the inner loop of _user_session_worker: the condition holds,
\* an endpoint is selected and _make_request runs to its end with outcome o
ScenarioRequest ==
    /\ pc[ScenarioWorker] = "loop"
    /\ running
    /\ Len(outcome_log) < MaxSessionCalls
    /\ \E m \in ScenarioUserType.min .. ScenarioUserType.max :
          /\ should_continue_session(requests_made[ScenarioWorker], m)
          /\ max_requests' = [max_requests EXCEPT ![ScenarioWorker] = m]
    /\ \E ep \in select_endpoint(ScenarioEndpoints, user_type[ScenarioWorker]),
          o \in Outcomes :
          /\ ep.error = "none"
          /\ requests_made' = [requests_made EXCEPT
                                 ![ScenarioWorker] = make_request_made(@, o)]
          /\ stats' = make_request_stats(stats, o)
          /\ endpoints_hit' = record_endpoints_hit(endpoints_hit, ScenarioEndpointKey)
          /\ outcome_log' = Append(outcome_log, o)
    /\ issued' = [issued EXCEPT ![ScenarioWorker] = @ + 1]
    /\ dispatched' = dispatched + 1
    /\ UNCHANGED << running, duration_minutes, pc, cancel_requested,
                    user_type, session_id, reporterPc, reporter_cancel,
                    runPc, sigPc, stop_called, final_stats, main_state,
                    selection, data_gen, snapshot, request, calls >>

\* the condition of the inner loop fails: the session is over
ScenarioSessionEnd ==
    /\ pc[ScenarioWorker] = "loop"
    /\ running
    /\ \E m \in ScenarioUserType.min .. ScenarioUserType.max :
          /\ ~should_continue_session(requests_made[ScenarioWorker], m)
          /\ max_requests' = [max_requests EXCEPT ![ScenarioWorker] = m]
    /\ pc' = [pc EXCEPT ![ScenarioWorker] = "gap"]
    /\ UNCHANGED << running, duration_minutes, cancel_requested, user_type,
                    session_id, requests_made, issued, dispatched, stats,
                    reporterPc, reporter_cancel, runPc, sigPc, stop_called,
                    final_stats >>
    /\ UNCHANGED auxVars

ScenarioNext ==
    \/ RunStart
    \/ ScenarioSessionStart
    \/ ScenarioRequest
    \/ ScenarioSessionEnd

ScenarioSpec == Init /\ [][ScenarioNext]_vars

\* C26: when the session of the scenario is over, exactly 3 outcomes have
\* been recorded, all under the key of the one endpoint, whatever the
\* outcomes of the requests were.
C26_ThreeOutcomesPerSession ==
    pc[ScenarioWorker] = "gap" =>
        /\ stats.total_requests = 3
        /\ DOMAIN endpoints_hit = {ScenarioEndpointKey}
        /\ endpoints_hit[ScenarioEndpointKey] = 3

\* ------------------------------------------------- selection frequencies
\* random() is uniform on [0, 1): each whole number below the total weight
\* stands for an interval of draws of the same length, so the share of the
\* draws that return a position is the limit of its observed frequency.
Abs(x) == IF x < 0 THEN 0 - x ELSE x

\* the pool a returned selection drew from, as a sequence of weights: the
\* configured list, the available endpoints, or all endpoints on the fallback
PoolPositions ==
    IF selection.fn # "_select_endpoint"
    THEN [ i \in 1..Len(selection.weights) |-> i ]
    ELSE IF selection.via = "fallback"
         THEN [ i \in 1..Len(selection.endpoints) |-> i ]
         ELSE available_endpoints(selection.endpoints, selection.user_type)

PoolWeight(i) ==
    IF selection.fn # "_select_endpoint"
    THEN selection.weights[PoolPositions[i]]
    ELSE selection.endpoints[PoolPositions[i]].weight

PoolTotal == SumOver([ i \in 1..Len(PoolPositions) |-> PoolWeight(i) ],
                     1..Len(PoolPositions))

\* the equally likely draws of the selection and the pool position each
\* returns: random.choice draws a position, random.choices a number below
\* the total weight
PoolDraws ==
    IF selection.via = "fallback"
    THEN [ x \in 1..Len(PoolPositions) |-> x ]
    ELSE LET weights == [ i \in 1..Len(PoolPositions) |-> PoolWeight(i) ]
         IN [ x \in 0..(PoolTotal - 1) |->
                bisect(accumulate(weights), x, 0, Len(weights) - 1) + 1 ]

DrawsReturning(i) == Cardinality({ x \in DOMAIN PoolDraws : PoolDraws[x] = i })

\* C27: for a selection that returned, the frequency of every item of the
\* pool is within 5 percent of its weight divided by the sum of the weights.
C27_FrequencyFollowsWeights ==
    (selection.pc = "returned" /\ selection.error = "none" /\ PoolTotal > 0) =>
        \A i \in 1..Len(PoolPositions) :
            20 * Abs(DrawsReturning(i) * PoolTotal
                       - PoolWeight(i) * Cardinality(DOMAIN PoolDraws))
                <= PoolTotal * Cardinality(DOMAIN PoolDraws)

\* the request or session budget of the model is used up
BudgetExhausted(w) ==
    \/ session_id[w] >= MaxSessions
    \/ dispatched + Cardinality(InThrottle) >= MaxRequests

\* C28: a worker gets a new session only when it has none or has ended the
\* previous one and paused, and the new session has the next, fresh id and
\* no request made; while the running flag stays set, a worker pausing after
\* a session eventually starts another one (or is still pausing when the
\* budget of the model is used up).
C28_WorkerCycle ==
    /\ [][ \A w \in Workers :
              (session_id'[w] # session_id[w] /\ session_id'[w] # 0) =>
                  /\ pc[w] \in {"notstarted", "gap"}
                  /\ session_id'[w] = session_id[w] + 1
                  /\ requests_made'[w] = 0 ]_vars
    /\ \A w \in Workers : \A k \in 1..MaxSessions :
          (pc[w] = "gap" /\ session_id[w] = k) ~>
              \/ session_id[w] = k + 1
              \/ ~running
              \/ (pc[w] = "gap" /\ BudgetExhausted(w))

C28_Witness ==
    /\ running
    /\ \E w \in Workers : session_id[w] = 2 /\ pc[w] = "http"

\* ------------------------------------------- building a request
\* the names registered in get_payload and in get_path_param, names that are
\* registered in neither, and None for a generator that is not configured
PayloadGenerators ==
    {"create_user", "create_product", "add_to_cart", "update_cart_item",
     "checkout"}
PathGenerators == {"product_id", "cart_item_id", "order_id"}
UnknownNames == {"unknown", ""}
GeneratorNames == PayloadGenerators \cup PathGenerators \cup UnknownNames
None == "None"

\* a payload is modelled by the set of its keys: {} is the empty payload
PayloadGeneratorOutputs(name) ==
    IF name = "create_user"
    THEN { {"username", "email", "first_name", "last_name"} }
    ELSE IF name = "create_product"
    THEN { {"name", "description", "price", "category_id", "stock_quantity",
            "sku"} }
    ELSE IF name = "add_to_cart" THEN { {"product_id", "quantity"} }
    ELSE IF name = "update_cart_item" THEN { {"quantity"} }
    ELSE { {"shipping_address"} }

\* the least and the greatest parameter each path generator can return
PathGeneratorOutputs(name) ==
    IF name = "product_id" THEN {"1", "10"}
    ELSE IF name = "cart_item_id" THEN {"1", "50"}
    ELSE {"1", "100"}

\* variant of get_payload that fails on a name that is not registered
get_payload_strict(generator_name) ==
    IF generator_name \in PayloadGenerators
    THEN { [ error |-> "none", payload |-> p ] :
             p \in PayloadGeneratorOutputs(generator_name) }
    ELSE { [ error |-> "KeyError", payload |-> {} ] }

\* DataGenerators.get_payload: the results a call can have
get_payload(generator_name) ==
    IF generator_name \in PayloadGenerators
    THEN { [ error |-> "none", payload |-> p ] :
             p \in PayloadGeneratorOutputs(generator_name) }
    ELSE { [ error |-> "none", payload |-> {} ] }

\* DataGenerators.get_path_param: the results a call can have
get_path_param(generator_name) ==
    IF generator_name \in PathGenerators
    THEN { [ error |-> "none", param |-> v ] :
             v \in PathGeneratorOutputs(generator_name) }
    ELSE { [ error |-> "none", param |-> "1" ] }

\* the truth value Python gives a configured generator name
Truthy(name) == name # None /\ name # ""

Methods == {"GET", "POST", "PUT", "DELETE"}

\* the attributes UserSession.__init__ fixes for a session
SessionAttributes ==
    [ session_id : {"session-1"},
      user_id : {"user_1000", "user_9999"},
      user_agent : {"Mozilla/5.0 (Windows NT 10.0; Win64; x64)",
                    "Mozilla/5.0 (Android 11; Mobile; rv:68.0)"},
      ip_address : {"10.0.0.1"} ]

\* UserSession.get_headers
get_headers(session) ==
    [ h \in {"User-Agent", "X-Session-ID", "X-User-ID", "X-Forwarded-For"} |->
        IF h = "User-Agent" THEN session.user_agent
        ELSE IF h = "X-Session-ID" THEN session.session_id
        ELSE IF h = "X-User-ID" THEN session.user_id
        ELSE session.ip_address ]

\* the payload _make_request prepares: None unless the method is POST or PUT
\* and the endpoint's payload_generator is truthy
make_request_payloads(endpoint) ==
    IF endpoint.method \in {"POST", "PUT"} /\ Truthy(endpoint.payload_generator)
    THEN { [ is_none |-> FALSE, payload |-> r.payload ] :
             r \in get_payload(endpoint.payload_generator) }
    ELSE { [ is_none |-> TRUE, payload |-> {} ] }

\* does the call _make_request makes carry a JSON body?  post() is given
\* json=payload, which sends a body unless payload is None; put() is given
\* json=payload only "if payload"; get() and delete() are given no body
body_attached(method, p) ==
    IF method = "POST" THEN ~p.is_none
    ELSE IF method = "PUT" THEN (~p.is_none /\ p.payload # {})
    ELSE FALSE

\* the calls: get_payload and get_path_param on a name, and _make_request
\* for a session on an endpoint
RequestCalls ==
    { [ fn |-> f, generator_name |-> n, session |-> << >>, endpoint |-> << >> ] :
        f \in {"get_payload", "get_path_param"}, n \in GeneratorNames }
    \cup
    { [ fn |-> "_make_request", generator_name |-> None, session |-> s,
        endpoint |-> ep ] :
        s \in SessionAttributes,
        ep \in [ method : Methods,
                 payload_generator : GeneratorNames \cup {None},
                 path_generator : GeneratorNames \cup {None} ] }

RequestInit ==
    \E call \in RequestCalls :
        request = [ pc |-> "call", fn |-> call.fn,
                    generator_name |-> call.generator_name,
                    session |-> call.session, endpoint |-> call.endpoint,
                    made |-> 0, error |-> "none", payload |-> {},
                    payload_is_none |-> TRUE, param |-> "",
                    body |-> FALSE, headers |-> << >>,
                    first_headers |-> << >> ]

CallGetPayload ==
    /\ request.pc = "call"
    /\ request.fn = "get_payload"
    /\ \E r \in get_payload(request.generator_name) :
          request' = [request EXCEPT !.pc = "returned", !.error = r.error,
                                     !.payload = r.payload,
                                     !.payload_is_none = FALSE]
    /\ UNCHANGED << simVars, main_state, selection, outcome_log, data_gen,
                    endpoints_hit, snapshot, calls >>

CallGetPathParam ==
    /\ request.pc = "call"
    /\ request.fn = "get_path_param"
    /\ \E r \in get_path_param(request.generator_name) :
          request' = [request EXCEPT !.pc = "returned", !.error = r.error,
                                     !.param = r.param]
    /\ UNCHANGED << simVars, main_state, selection, outcome_log, data_gen,
                    endpoints_hit, snapshot, calls >>

\* _make_request up to its HTTP call, for one more request of the session
BuildRequest ==
    /\ request.fn = "_make_request"
    /\ request.made < MaxRequests
    /\ \E pp \in (IF Truthy(request.endpoint.path_generator)
                  THEN get_path_param(request.endpoint.path_generator)
                  ELSE { [ error |-> "none", param |-> "" ] }),
          p \in make_request_payloads(request.endpoint) :
          request' =
            [request EXCEPT
               !.pc = "sent",
               !.made = @ + 1,
               !.param = pp.param,
               !.payload = p.payload,
               !.payload_is_none = p.is_none,
               !.body = body_attached(request.endpoint.method, p),
               !.headers = get_headers(request.session),
               !.first_headers = IF request.made = 0
                                 THEN get_headers(request.session) ELSE @]
    /\ UNCHANGED << simVars, main_state, selection, outcome_log, data_gen,
                    endpoints_hit, snapshot, calls >>

RequestSpecInit ==
    /\ SimInit
    /\ main_state = MainIdle
    /\ selection = SelectionIdle
    /\ outcome_log = OutcomeLogIdle
    /\ data_gen = [ pc |-> "idle" ]
    /\ endpoints_hit = << >>
    /\ snapshot = [ pc |-> "idle" ]
    /\ RequestInit
    /\ calls = << >>

RequestNext == CallGetPayload \/ CallGetPathParam \/ BuildRequest

RequestSpec == RequestSpecInit /\ [][RequestNext]_vars

\* C29: for a name that is not registered get_payload returns the empty
\* payload and get_path_param returns "1", without raising; for a registered
\* name the result is an output of the generator registered under it.
C29_UnknownGeneratorDefaults ==
    /\ (request.pc = "returned" /\ request.fn = "get_payload") =>
          /\ request.error = "none"
          /\ IF request.generator_name \in
                  {"create_user", "create_product", "add_to_cart",
                   "update_cart_item", "checkout"}
             THEN request.payload \in PayloadGeneratorOutputs(request.generator_name)
             ELSE request.payload = {}
    /\ (request.pc = "returned" /\ request.fn = "get_path_param") =>
          /\ request.error = "none"
          /\ IF request.generator_name \in
                  {"product_id", "cart_item_id", "order_id"}
             THEN request.param \in PathGeneratorOutputs(request.generator_name)
             ELSE request.param = "1"

C29_Witness ==
    /\ request.pc = "returned"
    /\ request.fn = "get_payload"
    /\ request.generator_name = "product_id"
    /\ request.payload = {}

\* C30: every call of a session carries the four headers with the values of
\* the session's first call, and it carries a JSON body exactly when the
\* method is POST or PUT and a payload generator is configured.
C30_HeadersAndBody ==
    request.pc = "sent" =>
        /\ DOMAIN request.headers =
              {"User-Agent", "X-Session-ID", "X-User-ID", "X-Forwarded-For"}
        /\ request.headers = request.first_headers
        /\ request.body <=>
              (request.endpoint.method \in {"POST", "PUT"}
                 /\ request.endpoint.payload_generator \notin {None, ""})

\* ------------------------------------------------------ generate_user_id
\* session ids the calls are made for, and the user ids randint can give
\* (f"user_{random.randint(1000, 9999)}": the least and the greatest)
SessionIds == {"session-1", "session-2", "session-3"}
UserIds == {"user_1000", "user_9999"}

\* variant of generate_user_id that stores a new user id on every call
generate_user_id_redraw(session_data, sid, drawn) ==
    IF sid \notin DOMAIN session_data
    THEN session_data @@ (sid :> drawn)
    ELSE [session_data EXCEPT ![sid] = drawn]

\* DataGenerators.generate_user_id: _session_data after a call for session
\* id sid in which randint would give the user id drawn; the call returns
\* the entry of sid
generate_user_id(session_data, sid, drawn) ==
    IF sid \notin DOMAIN session_data
    THEN session_data @@ (sid :> drawn)
    ELSE session_data

UserIdInit ==
    data_gen = [ pc |-> "cache", session_data |-> << >>,
                 first_returned |-> << >>, called |-> 0,
                 last_sid |-> "none", last_returned |-> "none" ]

\* one call of generate_user_id
CallGenerateUserId ==
    /\ data_gen.pc = "cache"
    /\ data_gen.called < MaxRecorded
    /\ \E sid \in SessionIds, drawn \in UserIds :
          LET after == generate_user_id(data_gen.session_data, sid, drawn)
          IN data_gen' =
               [data_gen EXCEPT
                  !.session_data = after,
                  !.called = @ + 1,
                  !.last_sid = sid,
                  !.last_returned = after[sid],
                  !.first_returned =
                      IF sid \in DOMAIN data_gen.first_returned
                      THEN @ ELSE @ @@ (sid :> after[sid])]
    /\ UNCHANGED << simVars, main_state, selection, outcome_log,
                    endpoints_hit, snapshot, request, calls >>

UserIdSpecInit ==
    /\ SimInit
    /\ main_state = MainIdle
    /\ selection = SelectionIdle
    /\ outcome_log = OutcomeLogIdle
    /\ UserIdInit
    /\ endpoints_hit = << >>
    /\ snapshot = [ pc |-> "idle" ]
    /\ request = [ pc |-> "idle" ]
    /\ calls = << >>

UserIdSpec == UserIdSpecInit /\ [][CallGenerateUserId]_vars

\* C31: every call for a session id returns what the first call for that id
\* returned, and a call never changes the user id stored for any id that
\* already has one.
C31_UserIdIdempotent ==
    /\ data_gen.last_sid \in SessionIds =>
          data_gen.last_returned = data_gen.first_returned[data_gen.last_sid]
    /\ \A sid \in DOMAIN data_gen.first_returned :
          /\ sid \in DOMAIN data_gen.session_data
          /\ data_gen.session_data[sid] = data_gen.first_returned[sid]

C31_Witness ==
    /\ data_gen.called = MaxRecorded
    /\ Cardinality(DOMAIN data_gen.session_data) = 2

\* ------------------------------------------------------------- ramp-up
\* run() with config['simulation']['ramp_up_seconds']: main_state holds the
\* configured requests_per_second and ramp_up_seconds, the rate_limit given
\* to the Throttler in LoadSimulator.__init__ and the turns of the ramp-up
\* loop still to run
RampRates == {1, 1000}

RampInit ==
    \E rps \in RampRates, secs \in 0..MaxRamp :
        main_state = [ pc |-> "simulator", requests_per_second |-> rps,
                       rate_limit |-> rps, ramp_up_seconds |-> secs,
                       ramp_left |-> 0 ]

\* where run() waits once the ramp-up is over
AfterRamp == IF duration_minutes > 0 THEN "duration" ELSE "forever"

\* run() up to its first await: the flag is set, the tasks are created, and
\* run() enters the ramp-up loop if ramp_up_seconds > 0
RampRunStart ==
    /\ runPc = "init"
    /\ running' = TRUE
    /\ IF main_state.ramp_up_seconds > 0
       THEN /\ runPc' = "ramp"
            /\ main_state' = [main_state EXCEPT
                                !.ramp_left = main_state.ramp_up_seconds]
       ELSE /\ runPc' = AfterRamp
            /\ main_state' = main_state
    /\ UNCHANGED << duration_minutes, pc, cancel_requested, user_type,
                    session_id, requests_made, max_requests, issued,
                    dispatched, stats, reporterPc, reporter_cancel, sigPc,
                    stop_called, final_stats >>
    /\ UNCHANGED << selection, outcome_log, unitVars >>

\* variant of RampTick that raises the admitted rate at every turn
RampTick_gradual ==
    /\ runPc = "ramp"
    /\ main_state' = [main_state EXCEPT !.ramp_left = @ - 1,
                                        !.rate_limit = @ + 1]
    /\ runPc' = IF main_state.ramp_left = 1 THEN AfterRamp ELSE "ramp"
    /\ UNCHANGED << running, duration_minutes, pc, cancel_requested,
                    user_type, session_id, requests_made, max_requests,
                    issued, dispatched, stats, reporterPc, reporter_cancel,
                    sigPc, stop_called, final_stats >>
    /\ UNCHANGED << selection, outcome_log, unitVars >>

\* one "await asyncio.sleep(1)" of the ramp-up loop ends
RampTick ==
    /\ runPc = "ramp"
    /\ main_state' = [main_state EXCEPT !.ramp_left = @ - 1]
    /\ runPc' = IF main_state.ramp_left = 1 THEN AfterRamp ELSE "ramp"
    /\ UNCHANGED << running, duration_minutes, pc, cancel_requested,
                    user_type, session_id, requests_made, max_requests,
                    issued, dispatched, stats, reporterPc, reporter_cancel,
                    sigPc, stop_called, final_stats >>
    /\ UNCHANGED << selection, outcome_log, unitVars >>

RampSpecInit ==
    /\ SimInit
    /\ RampInit
    /\ selection = SelectionIdle
    /\ outcome_log = OutcomeLogIdle
    /\ UnitIdle

\* run() up to the end of the ramp-up, with the workers
RampNext ==
    \/ RampRunStart
    \/ RampTick
    \/ \E w \in Workers : WorkerStart(w)
    \/ \E w \in Workers : ThrottleAdmit(w)
    \/ \E w \in Workers : HttpComplete(w)
    \/ \E w \in Workers : ThinkElapsed(w)
    \/ \E w \in Workers : GapElapsed(w)

RampSpec == RampSpecInit /\ [][RampNext]_vars

\* C32: during the ramp-up the rate of the limiter is the configured target
\* rate and the workers run; a turn of the ramp-up loop changes nothing but
\* the position of run() in the loop.
C32_RampUpOnlyDelays ==
    /\ [](runPc = "ramp" =>
            /\ main_state.rate_limit = main_state.requests_per_second
            /\ running)
    /\ [][ (runPc = "ramp" /\ main_state' # main_state) =>
              /\ main_state'.rate_limit = main_state.rate_limit
              /\ main_state'.requests_per_second = main_state.requests_per_second
              /\ UNCHANGED << running, duration_minutes, pc, cancel_requested,
                              user_type, session_id, requests_made,
                              max_requests, issued, dispatched, stats,
                              reporterPc, reporter_cancel, sigPc, stop_called,
                              final_stats >> ]_vars

C32_Witness ==
    /\ runPc = "ramp"
    /\ main_state.ramp_up_seconds = 2
    /\ main_state.ramp_left = 1
    /\ \E w \in Workers : pc[w] = "think"
    /\ stats.total_requests > 0

\* ---------------------------------------------------------------------
\* top_endpoints of get_stats over dictionaries of more than ten keys

\* the endpoint keys of the dictionary, in the order of their insertion
TopKeys ==
    << "GET /e01", "GET /e02", "GET /e03", "GET /e04", "GET /e05", "GET /e06",
       "GET /e07", "GET /e08", "GET /e09", "GET /e10", "GET /e11", "GET /e12",
       "GET /e13" >>

\* the counts record_request can have left under a key
TopCounts == { 1, 2 }

\* calls holds the keys in the order record_request first saw them
TopInit ==
    /\ SimInit
    /\ main_state = MainIdle
    /\ selection = SelectionIdle
    /\ outcome_log = OutcomeLogIdle
    /\ data_gen = [ pc |-> "idle" ]
    /\ request = [ pc |-> "idle" ]
    /\ snapshot = [ pc |-> "idle" ]
    /\ \E n \in 0..MaxKeys :
          /\ calls = SubSeq(TopKeys, 1, n)
          /\ endpoints_hit \in [ { TopKeys[i] : i \in 1..n } -> TopCounts ]

\* a call of get_stats on that dictionary
TopSnapshot ==
    /\ snapshot.pc = "idle"
    /\ snapshot' = [ pc |-> "taken",
                     taken |-> [ top_endpoints |->
                                   top_endpoints_ordered(endpoints_hit, calls) ] ]
    /\ UNCHANGED << simVars, main_state, selection, outcome_log, data_gen,
                    endpoints_hit, request, calls >>

TopSpec == TopInit /\ [][TopSnapshot]_vars

\* C33: top_endpoints of a statistics snapshot holds at most 10 keys, each
\* with the count endpoints_hit has for it, no key left out has a count
\* strictly greater than a key kept, and a dictionary of at most 10 keys
\* is kept whole.
C33_TopEndpoints ==
    snapshot.pc = "taken" =>
        LET top == snapshot.taken.top_endpoints
        IN /\ Cardinality(DOMAIN top) <= 10
           /\ DOMAIN top \subseteq DOMAIN endpoints_hit
           /\ \A k \in DOMAIN top : top[k] = endpoints_hit[k]
           /\ \A j \in DOMAIN endpoints_hit \ DOMAIN top :
                 \A k \in DOMAIN top : endpoints_hit[j] <= endpoints_hit[k]
           /\ Cardinality(DOMAIN endpoints_hit) <= 10 =>
                 DOMAIN top = DOMAIN endpoints_hit

\* eleven keys, one left out, and both counts among the keys kept
C33_Witness ==
    /\ snapshot.pc = "taken"
    /\ Cardinality(DOMAIN endpoints_hit) = 11
    /\ Cardinality(DOMAIN snapshot.taken.top_endpoints) = 10
    /\ \E j \in DOMAIN endpoints_hit \ DOMAIN snapshot.taken.top_endpoints :
          endpoints_hit[j] = 1
    /\ \E k, l \in DOMAIN snapshot.taken.top_endpoints :
          /\ endpoints_hit[k] = 1
          /\ endpoints_hit[l] = 2

\* ---------------------------------------------------------------------
\* C34: each call of _make_request that is not cancelled records exactly one
\* outcome: the step in which the call returns to the worker loop adds
\* exactly 1 to total_requests, and no other step changes total_requests.
C34_OneOutcomePerCall ==
    [][ /\ \A w \in Workers :
              (pc[w] = "http" /\ pc'[w] = "think") =>
                  stats'.total_requests = stats.total_requests + 1
        /\ stats'.total_requests # stats.total_requests =>
              \E w \in Workers : pc[w] = "http" /\ pc'[w] = "think" ]_vars

\* two calls were sent: one has ended on the exception path and the other
\* one on the response path
C34_Witness ==
    /\ dispatched = 2
    /\ stats.total_requests = 2
    /\ stats.successful_requests = 1
    /\ stats.status_codes[SentinelStatus] = 1
    /\ stats.errors = 1

\* ---------------------------------------------------------------------
\* the worker tasks that run() has created and that have not ended
LiveWorkers ==
    IF runPc = "init" THEN { } ELSE { w \in Workers : pc[w] # "done" }

\* C35: workers are created once, in run(): a worker task that has ended is
\* never run again, so after startup the set of live workers never gains a
\* member and never holds more than the configured number of workers.
C35_WorkersNeverRestarted ==
    [][ /\ \A w \in Workers : pc[w] = "done" => pc'[w] = "done"
        /\ runPc # "init" => LiveWorkers' \subseteq LiveWorkers
        /\ Cardinality(LiveWorkers') <= NumWorkers ]_vars

\* the simulation is running, one worker has ended on an error outside
\* _make_request and another one is in an HTTP call
C35_Witness ==
    /\ running
    /\ \E w \in Workers : pc[w] = "done"
    /\ \E w \in Workers : pc[w] = "http"
    /\ Cardinality(LiveWorkers) = NumWorkers - 1

\* ---------------------------------------------------------------------
\* a call of stop() has returned: the one of a signal, or the one run()
\* makes at the end of a bounded run
StopCompleted ==
    \/ \E i \in Signals : sigPc[i] = "returned"
    \/ runPc \in {"stats_gather", "returned"}

\* C36: once a call of stop() has returned, every step, those of a further
\* call of stop() included, leaves the running flag cleared, the statistics
\* unchanged and every worker ended with no cancellation pending, so the
\* gather of a further call has nothing to wait for and the call returns.
C36_StopIdempotent ==
    [][ StopCompleted =>
          /\ ~running'
          /\ stats' = stats
          /\ \A w \in Workers : pc'[w] = "done" /\ ~cancel_requested'[w]
          /\ \A i \in Signals : sigPc[i] = "returned" => sigPc'[i] = "returned" ]_vars

\* the stop() of a signal has returned after requests were recorded, and
\* the stop() that run() calls when the duration has elapsed has returned too
C36_Witness ==
    /\ \E i \in Signals : sigPc[i] = "returned"
    /\ runPc = "returned"
    /\ stop_called
    /\ stats.total_requests > 0

\* ---------------------------------------------------------------------
\* the outcomes of the log recorded by the exception handler with a text
\* that is not empty, and the responses recorded with a status of 400 or more
LoggedErrorTexts ==
    { i \in LoggedExceptions : outcome_log[i].text # "" }

LoggedFailureResponses ==
    { i \in 1..Len(outcome_log) :
        ResponsePath(outcome_log[i]) /\ outcome_log[i].status >= 400 }

\* C37: the error list never has more entries than failed_requests: its
\* entries are exactly the outcomes the exception handler recorded with a
\* non-empty text, each of them a failure under status 500, and a response
\* received with a status of 400 or more is a failure without an entry.
C37_ErrorCountAtMostFailed ==
    /\ stats.errors <= stats.failed_requests
    /\ stats.errors = Cardinality(LoggedErrorTexts)
    /\ stats.errors <= stats.status_codes[SentinelStatus]
    /\ stats.failed_requests =
          Cardinality(LoggedExceptions) + Cardinality(LoggedFailureResponses)
    /\ get_stats(stats).error_count = stats.errors

\* a failed response, an exception with an empty text and one with a text
\* have been recorded: three failures, one entry
C37_Witness ==
    /\ Cardinality(LoggedFailureResponses) = 1
    /\ Cardinality(LoggedErrorTexts) = 1
    /\ Cardinality(LoggedExceptions) = 2
    /\ stats.failed_requests = 3
    /\ stats.errors = 1

\* ---------------------------------------------------------------------
\* the key under which _make_request records an outcome in endpoints_hit.
\* A path is the sequence of its parts, a placeholder being one part.
KeyPaths ==
    { << "/products" >>, << "/products/", "{id}" >>, << "/cart/", "{item_id}" >> }

KeyEndpoints ==
    [ method : {"GET", "PUT"}, path : KeyPaths,
      path_generator : {None, "product_id", "cart_item_id"} ]

\* str.replace(old, new) on a path
replace(path, old, new) ==
    [ i \in DOMAIN path |-> IF path[i] = old THEN new ELSE path[i] ]

\* the local variable path of _make_request once param has been generated
resolve_path(endpoint, param) ==
    IF Truthy(endpoint.path_generator)
    THEN replace(replace(endpoint.path, "{id}", param), "{item_id}", param)
    ELSE endpoint.path

\* f"{method} {endpoint}" of record_request
endpoint_key(method, endpoint) == << method, endpoint >>

\* the endpoint argument of the record_request that _make_request reaches
\* with outcome o: path in the try block, endpoint['path'] in the handler
make_request_endpoint(endpoint, param, o) ==
    IF ResponsePath(o) THEN resolve_path(endpoint, param) ELSE endpoint.path

KeyInit ==
    /\ SimInit
    /\ main_state = MainIdle
    /\ selection = SelectionIdle
    /\ outcome_log = OutcomeLogIdle
    /\ data_gen = [ pc |-> "idle" ]
    /\ endpoints_hit = << >>
    /\ snapshot = [ pc |-> "idle" ]
    /\ calls = << >>
    /\ \E ep \in KeyEndpoints :
          request = [ pc |-> "call", endpoint |-> ep, param |-> "",
                      outcome |-> << >> ]

\* one call of _make_request for the endpoint, from the generation of the
\* path parameter to the record_request of its outcome
MakeRequestRecorded ==
    /\ request.pc = "call"
    /\ \E pp \in (IF Truthy(request.endpoint.path_generator)
                  THEN get_path_param(request.endpoint.path_generator)
                  ELSE { [ error |-> "none", param |-> "" ] }),
          o \in Outcomes :
          /\ request' = [request EXCEPT !.pc = "recorded", !.param = pp.param,
                                        !.outcome = o]
          /\ stats' = make_request_stats(stats, o)
          /\ endpoints_hit' =
                record_endpoints_hit(
                    endpoints_hit,
                    endpoint_key(request.endpoint.method,
                                 make_request_endpoint(request.endpoint,
                                                       pp.param, o)))
    /\ UNCHANGED << running, duration_minutes, pc, cancel_requested,
                    user_type, session_id, requests_made, max_requests,
                    issued, dispatched, reporterPc, reporter_cancel, runPc,
                    sigPc, stop_called, final_stats, main_state, selection,
                    outcome_log, data_gen, snapshot, calls >>

KeySpec == KeyInit /\ [][MakeRequestRecorded]_vars

\* C38: for an endpoint with a path generator an outcome recorded after a
\* response was received is keyed by the method and the path with its
\* placeholder replaced by the generated parameter, and an outcome recorded
\* for an exception of the client by the method and the path template; for
\* an endpoint without a path generator the key is the method and the
\* template in both cases.
C38_HistogramKeys ==
    request.pc = "recorded" =>
        LET ep == request.endpoint
            filled == [ i \in DOMAIN ep.path |->
                          IF ep.path[i] \in {"{id}", "{item_id}"}
                          THEN request.param ELSE ep.path[i] ]
        IN IF ep.path_generator # None
           THEN /\ request.outcome.kind = "response" =>
                      DOMAIN endpoints_hit = { << ep.method, filled >> }
                /\ request.outcome.kind = "exception" =>
                      DOMAIN endpoints_hit = { << ep.method, ep.path >> }
           ELSE DOMAIN endpoints_hit = { << ep.method, ep.path >> }

=============================================================================
